---- MODULE Spec2Model ----
(***************************************************************************)
(* Model of the metadata-based site tree exporter (src/unnamed/part_000).  *)
(*                                                                         *)
(* Page text is a sequence of tokens; the text itself is the concatenation *)
(* of the tokens.  The two regular expressions of the script are matched   *)
(* token by token.  A file name is a pair (stem, ext) and stands for the   *)
(* string stem \o ext.  The filesystem is a map from paths (sequences of   *)
(* names below the scan root) to entries.  The recursion of buildTree is   *)
(* an explicit stack of frames, one step per directory entry.              *)
(***************************************************************************)
EXTENDS Integers, Sequences, FiniteSets, TLC

VARIABLES fs, pc, stack, tree, log, visited, thrown, outs, page, res

vars == <<fs, pc, stack, tree, log, visited, thrown, outs, page, res>>

\* ---------------------------------------------------------------- bounds
\* number of exporter runs in succession
MaxRuns == 2
\* number of blocks (title block, meta declaration, text) of a drawn page
MaxBlocks == 2

\* ---------------------------------------------------------------- tokens
WsTokens == {" ", "\n"}
LineTerminators == {"\n"}
MetaOpen == {"<meta", "<META"}
NameAttr == {"name=\"sitemap\"", "name='sitemap'", "NAME=\"Sitemap\""}
IncludeAttr == {"content=\"include\"", "content='include'", "content=\"INCLUDE\""}
ExcludeAttr == {"content=\"exclude\"", "content='exclude'", "content=\"EXCLUDE\""}
OtherAttr == {"content=\"maybe\"", "name=\"robots\""}
TitleOpen == {"<title>", "<TITLE>"}
TitleClose == {"</title>", "</TITLE>"}
TextTokens == {"Home", "A"}

ContentAttr(v) == IF v = "include" THEN IncludeAttr ELSE ExcludeAttr

\* the token at position i, "" past the end of the text
Tok(html, i) == IF i >= 1 /\ i <= Len(html) THEN html[i] ELSE ""

\* \s* : the first position from i on that holds no whitespace
RECURSIVE SkipWs(_, _)
SkipWs(html, i) ==
  IF i <= Len(html) /\ html[i] \in WsTokens THEN SkipWs(html, i + 1) ELSE i

\* /<meta\s+name=["']sitemap["']\s+content=["']v["']\s*\/?>/i anchored at i
MetaAt(html, i, v) ==
  LET a == i + 1
      b == SkipWs(html, a)
      c == b + 1
      d == SkipWs(html, c)
      e == d + 1
      f == SkipWs(html, e)
      g == IF Tok(html, f) = "/" THEN f + 1 ELSE f
  IN  /\ Tok(html, i) \in MetaOpen
      /\ b > a
      /\ Tok(html, b) \in NameAttr
      /\ d > c
      /\ Tok(html, d) \in ContentAttr(v)
      /\ Tok(html, g) = ">"

MetaTest(html, v) == \E i \in 1..Len(html) : MetaAt(html, i, v)

checkSitemapMeta(html) ==
  [include |-> MetaTest(html, "include"), exclude |-> MetaTest(html, "exclude")]

\* String.prototype.trim on a token sequence
RECURSIVE TrimLeft(_)
TrimLeft(s) ==
  IF s # <<>> /\ Head(s) \in WsTokens THEN TrimLeft(Tail(s)) ELSE s

RECURSIVE TrimRight(_)
TrimRight(s) ==
  IF s # <<>> /\ s[Len(s)] \in WsTokens
  THEN TrimRight(SubSeq(s, 1, Len(s) - 1)) ELSE s

Trim(s) == TrimRight(TrimLeft(s))

\* the closing tags that <title>(.*?)<\/title> can reach from an opening tag
\* at i: '.' matches no line terminator
TitleEnds(html, i) ==
  {j \in (i + 1)..Len(html) :
      /\ html[j] \in TitleClose
      /\ \A k \in (i + 1)..(j - 1) : html[k] \notin LineTerminators}

TitleStarts(html) ==
  {i \in 1..Len(html) : html[i] \in TitleOpen /\ TitleEnds(html, i) # {}}

Min(S) == CHOOSE x \in S : \A y \in S : x <= y

\* null is <<>>, a string s is <<s>>; s is kept as its token sequence
extractTitle(html) ==
  IF TitleStarts(html) = {} THEN <<>>
  ELSE LET i == Min(TitleStarts(html))
           j == Min(TitleEnds(html, i))
       IN  <<Trim(SubSeq(html, i + 1, j - 1))>>

\* !title : null or the empty string
Falsy(title) == title = <<>> \/ title[1] = <<>>

\* ---------------------------------------------------------------- names
Name(stem, ext) == [stem |-> stem, ext |-> ext]
NameStr(n) == n.stem \o n.ext

\* entry.name.endsWith('.html')
EndsWithHtml(n) == n.ext = ".html"

\* path.join of two segments, then .replace(/\\/g, '/'): an empty segment is
\* dropped; the names of the model hold no backslash
PathJoin(a, b) == IF a = "" THEN b ELSE IF b = "" THEN a ELSE a \o "/" \o b

\* process.cwd() and its base name
RootParent == "/srv"
RootName == "proj"
rootDir == RootParent \o "/" \o RootName

AssetsName == Name("assets", "")
DataName == Name("data", "")
TreeJsonName == Name("tree", ".json")
\* the directory of outputFile, as a path below rootDir
outputDir == <<AssetsName, DataName>>
outputFile == outputDir \o <<TreeJsonName>>

\* ---------------------------------------------------------------- filesystem
\* ok = FALSE: readdirSync / readFileSync on the entry throws
DirEntry(names, ok) == [kind |-> "dir", entries |-> names, ok |-> ok]
FileEntry(content, ok) == [kind |-> "file", content |-> content, ok |-> ok]
\* neither isDirectory() nor isFile(): a socket, a fifo, a symbolic link
OtherEntry == [kind |-> "other"]

IsDir(f, p) == p \in DOMAIN f /\ f[p].kind = "dir"

\* a read error that is caught where it happens, so the walk never sees it
ReadableSwallowed(f, p) == TRUE

\* readdirSync(p) / readFileSync(p) returns rather than throws
Readable(f, p) == f[p].ok

\* ---------------------------------------------------------------- pages
MetaTag(first, second, close) == <<"<meta", " ", first, " ", second>> \o close

IncludeTag == MetaTag("name=\"sitemap\"", "content=\"include\"", <<">">>)
ExcludeTag == MetaTag("name=\"sitemap\"", "content=\"exclude\"", <<">">>)
TitleHome == <<"<title>", " ", "Home", " ", "</title>">>

\* the pages the walk is run on
Pages ==
  { IncludeTag \o <<"\n">> \o TitleHome,
    IncludeTag,
    MetaTag("name='sitemap'", "content=\"INCLUDE\"", <<" ", "/", ">">>)
       \o <<"<TITLE>", " ", "</TITLE>">>,
    ExcludeTag \o TitleHome,
    ExcludeTag \o <<"\n">> \o IncludeTag \o <<"<title>", "A", "\n", "</title>">>,
    TitleHome,
    MetaTag("content=\"include\"", "name=\"sitemap\"", <<">">>) \o TitleHome }

\* a page file slot: no file, an unreadable file, or a readable page
PageSlots ==
  {[kind |-> "none"], [kind |-> "unreadable"]}
     \cup {[kind |-> "page", html |-> h] : h \in Pages}

NoFs == [p \in {} |-> OtherEntry]

SlotFile(path, slot) ==
  IF slot.kind = "none" THEN NoFs
  ELSE IF slot.kind = "unreadable" THEN (path :> FileEntry(<<>>, FALSE))
  ELSE (path :> FileEntry(slot.html, TRUE))

SlotName(name, present) == IF present THEN <<name>> ELSE <<>>

AName == Name("a", ".html")
XName == Name("x", "")
YName == Name("y", "")
CName == Name("c", ".html")
ZName == Name("z", ".html")

\* a directory slot: "none", "dir" (readable) or "baddir" (readdirSync throws)
DirSlots == {"none", "dir", "baddir"}

\* an entry the walk has to ignore: a text file, a .html name that is no
\* regular file, a regular file whose extension is .HTML
MiscSlots == {"none", "txt", "link", "upper"}

MiscName(m) ==
  IF m = "txt" THEN Name("notes", ".txt")
  ELSE IF m = "link" THEN Name("link", ".html")
  ELSE Name("B", ".HTML")

MiscFs(m) ==
  IF m = "none" THEN NoFs
  ELSE IF m = "link" THEN (<<MiscName(m)>> :> OtherEntry)
  ELSE (<<MiscName(m)>> :> FileEntry(IncludeTag \o TitleHome, TRUE))

\* the destination: no assets/, assets/ alone, assets/data/ empty, or a
\* tree.json left by an earlier export
AssetSlots == {"none", "assets", "data", "prior"}

AssetFs(s) ==
  IF s = "none" THEN NoFs
  ELSE IF s = "assets" THEN (<<AssetsName>> :> DirEntry(<<>>, TRUE))
  ELSE (<<AssetsName>> :> DirEntry(<<DataName>>, TRUE))
       @@ (outputDir :> DirEntry(SlotName(TreeJsonName, s = "prior"), TRUE))
       @@ (IF s = "prior" THEN (outputFile :> FileEntry(<<"old">>, TRUE))
           ELSE NoFs)

YFs(yk, z) ==
  IF yk = "none" THEN NoFs
  ELSE IF yk = "baddir" THEN (<<XName, YName>> :> DirEntry(<<>>, FALSE))
  ELSE (<<XName, YName>> :> DirEntry(SlotName(ZName, z.kind # "none"), TRUE))
       @@ SlotFile(<<XName, YName, ZName>>, z)

XFs(xk, c, yk, z) ==
  IF xk = "none" THEN NoFs
  ELSE IF xk = "baddir" THEN (<<XName>> :> DirEntry(<<>>, FALSE))
  ELSE (<<XName>> :> DirEntry(SlotName(CName, c.kind # "none")
                              \o SlotName(YName, yk # "none"), TRUE))
       @@ SlotFile(<<XName, CName>>, c)
       @@ YFs(yk, z)

\* readdirSync returns the names of a directory in ascending order of their
\* code units: B.HTML, a.html, assets, link.html, notes.txt, x (and c.html, y)
MakeFs(a, xk, c, yk, z, m, s, rootOk) ==
  (<<>> :> DirEntry(SlotName(MiscName(m), m = "upper")
                    \o SlotName(AName, a.kind # "none")
                    \o SlotName(AssetsName, s # "none")
                    \o SlotName(MiscName(m), m \in {"link", "txt"})
                    \o SlotName(XName, xk # "none"), rootOk))
  @@ SlotFile(<<AName>>, a)
  @@ XFs(xk, c, yk, z)
  @@ MiscFs(m)
  @@ AssetFs(s)

\* the project trees the exporter is run on
InitialTrees ==
  {MakeFs(a, xk, c, yk, z, m, s, TRUE) :
      a \in PageSlots, xk \in {"none", "dir"}, c \in PageSlots,
      yk \in DirSlots, z \in PageSlots, m \in MiscSlots, s \in AssetSlots}
  \cup {MakeFs([kind |-> "none"], xk, [kind |-> "none"], "none",
               [kind |-> "none"], "none", "data", rootOk) :
          xk \in DirSlots, rootOk \in BOOLEAN}

\* ---------------------------------------------------------------- JSON
RECURSIVE Ind(_)
Ind(d) == IF d = 0 THEN "" ELSE "  " \o Ind(d - 1)

\* the JSON escape of one token of a string
JsonEscape(t) ==
  IF t = "\n" THEN "\\n"
  ELSE IF t = "name=\"sitemap\"" THEN "name=\\\"sitemap\\\""
  ELSE IF t = "NAME=\"Sitemap\"" THEN "NAME=\\\"Sitemap\\\""
  ELSE IF t = "content=\"include\"" THEN "content=\\\"include\\\""
  ELSE IF t = "content=\"INCLUDE\"" THEN "content=\\\"INCLUDE\\\""
  ELSE IF t = "content=\"exclude\"" THEN "content=\\\"exclude\\\""
  ELSE IF t = "content=\"EXCLUDE\"" THEN "content=\\\"EXCLUDE\\\""
  ELSE IF t = "content=\"maybe\"" THEN "content=\\\"maybe\\\""
  ELSE IF t = "name=\"robots\"" THEN "name=\\\"robots\\\""
  ELSE t

RECURSIVE JsonText(_)
JsonText(toks) ==
  IF toks = <<>> THEN "" ELSE JsonEscape(Head(toks)) \o JsonText(Tail(toks))

Quote(s) == "\"" \o s \o "\""

IsLeaf(node) == "sitemap" \in DOMAIN node

RECURSIVE JsonNode(_, _)
RECURSIVE JsonItems(_, _)
JsonItems(nodes, d) ==
  IF nodes = <<>> THEN ""
  ELSE Ind(d) \o JsonNode(Head(nodes), d)
       \o (IF Len(nodes) > 1 THEN ",\n" ELSE "\n")
       \o JsonItems(Tail(nodes), d)

\* JSON.stringify(node, null, 2) at nesting depth d; keys in insertion order
JsonNode(node, d) ==
  IF IsLeaf(node)
  THEN "{\n" \o Ind(d + 1) \o "\"name\": " \o Quote(node.name) \o ",\n"
       \o Ind(d + 1) \o "\"path\": " \o Quote(node.path) \o ",\n"
       \o Ind(d + 1) \o "\"title\": " \o Quote(JsonText(node.title)) \o ",\n"
       \o Ind(d + 1) \o "\"sitemap\": true\n"
       \o Ind(d) \o "}"
  ELSE "{\n" \o Ind(d + 1) \o "\"name\": " \o Quote(node.name) \o ",\n"
       \o Ind(d + 1) \o "\"children\": [\n"
       \o JsonItems(node.children, d + 2)
       \o Ind(d + 1) \o "]\n"
       \o Ind(d) \o "}"

\* JSON.stringify(tree, null, 2); tree is <<>> for null, <<node>> for a node
Stringify(t) == IF t = <<>> THEN "null" ELSE JsonNode(t[1], 0)

\* ---------------------------------------------------------------- buildTree
\* the entry loop without the test of the extension
EntryClassAnyFile(kind, n) ==
  IF kind = "dir" THEN "dir"
  ELSE IF kind = "file" THEN "page"
  ELSE "ignored"

\* the branch of the entry loop an entry takes
EntryClass(kind, n) ==
  IF kind = "dir" THEN "dir"
  ELSE IF kind = "file" /\ EndsWithHtml(n) THEN "page"
  ELSE "ignored"

\* the decision with the exclude flag tested first
DecisionExcludeFirst(meta) ==
  IF meta.exclude THEN "exclude"
  ELSE IF meta.include THEN "include"
  ELSE "missing"

\* the decision on a page from the two flags of checkSitemapMeta
Decision(meta) ==
  IF meta.include THEN "include"
  ELSE IF meta.exclude THEN "exclude"
  ELSE "missing"

\* title ?? entry.name
TitleOrNullish(title, name) == IF title = <<>> THEN <<name>> ELSE title[1]

\* title || entry.name
TitleOr(title, name) == IF Falsy(title) THEN <<name>> ELSE title[1]

LeafNode(n, entryRelPath, title) ==
  [name |-> NameStr(n), path |-> entryRelPath,
   title |-> TitleOr(title, NameStr(n)), sitemap |-> TRUE]

\* path.join(relativePath, name, entry.name)
EntryRelPath(rel, name, n) == PathJoin(PathJoin(rel, name), NameStr(n))

\* buildTree returning the node of a directory without children too
DirResultKeepEmpty(name, children) ==
  IF Len(children) > 0 THEN <<[name |-> name, children |-> children]>>
  ELSE <<[name |-> name]>>

\* what buildTree returns: <<>> for null, <<node>> for a node
DirResult(name, children) ==
  IF Len(children) > 0 THEN <<[name |-> name, children |-> children]>> ELSE <<>>

Msg(level, kind, path) == [level |-> level, kind |-> kind, path |-> path]

\* an excluded page skipped without a note
PageMessagesQuietSkip(decision, title, entryPath) ==
  IF decision = "include"
  THEN (IF Falsy(title) THEN <<Msg("warn", "TITLE MISSING", entryPath)>> ELSE <<>>)
  ELSE IF decision = "exclude" THEN <<>>
  ELSE <<Msg("warn", "SITEMAP TAG MISSING", entryPath)>>

\* the messages a readable page causes
PageMessages(decision, title, entryPath) ==
  IF decision = "include"
  THEN (IF Falsy(title) THEN <<Msg("warn", "TITLE MISSING", entryPath)>> ELSE <<>>)
  ELSE IF decision = "exclude" THEN <<Msg("log", "EXCLUDED", entryPath)>>
  ELSE <<Msg("warn", "SITEMAP TAG MISSING", entryPath)>>

PageChildren(decision, n, entryRelPath, title) ==
  IF decision = "include" THEN <<LeafNode(n, entryRelPath, title)>> ELSE <<>>

Frame(dir, currentPath, rel, name) ==
  [dir |-> dir, currentPath |-> currentPath, rel |-> rel, name |-> name,
   entries |-> fs[dir].entries, i |-> 1, children |-> <<>>]

Top == stack[Len(stack)]
Cur == Top.entries[Top.i]
CurPath == Top.dir \o <<Cur>>
HasEntry == pc = "Running" /\ stack # <<>> /\ Top.i <= Len(Top.entries)

\* the content of the output file, <<>> when there is none
Output(f) == IF outputFile \in DOMAIN f THEN <<f[outputFile].content>> ELSE <<>>

\* the catch block of the script: the exception ends the run, with the
\* messages in logged already printed
Throw(what, logged) ==
  /\ pc' = "Failed"
  /\ thrown' = what
  /\ stack' = <<>>
  /\ log' = Append(logged, Msg("error", "Export failed", what))
  /\ outs' = Append(outs, Output(fs))
  /\ UNCHANGED <<fs, tree, page, res>>

\* writeFileSync throws unless the directory of the file exists
CanWrite(f, p) ==
  /\ IsDir(f, SubSeq(p, 1, Len(p) - 1))
  /\ p \in DOMAIN f => f[p].kind = "file"

\* writeFileSync with flag 'a' instead of 'w'
WriteFileAppend(f, p, data) ==
  IF p \in DOMAIN f
  THEN [f EXCEPT ![p] = FileEntry(f[p].content \o <<data>>, TRUE)]
  ELSE (p :> FileEntry(<<data>>, TRUE))
       @@ [f EXCEPT ![SubSeq(p, 1, Len(p) - 1)].entries = Append(@, p[Len(p)])]

\* writeFileSync: the file is created or truncated, then holds data; a new
\* name is listed last, which is its sorted place in the directories written to
WriteFile(f, p, data) ==
  IF p \in DOMAIN f
  THEN [f EXCEPT ![p] = FileEntry(<<data>>, TRUE)]
  ELSE (p :> FileEntry(<<data>>, TRUE))
       @@ [f EXCEPT ![SubSeq(p, 1, Len(p) - 1)].entries = Append(@, p[Len(p)])]

ScanMsg == Msg("log", "Scanning site folders for HTML pages...", "")
DoneMsg == Msg("log", "Export complete! Sitemap written to:",
               PathJoin(rootDir, "assets/data/tree.json"))

\* ---------------------------------------------------------------- the run
Init ==
  /\ fs \in InitialTrees
  /\ pc = "Ready"
  /\ stack = <<>>
  /\ tree = <<>>
  /\ log = <<>>
  /\ visited = <<>>
  /\ thrown = "none"
  /\ outs = <<Output(fs)>>
  /\ page = <<>>
  /\ res = <<>>

\* the script starts: the first message, then buildTree(rootDir)
Start ==
  /\ pc = "Ready"
  /\ visited' = <<<<>>>>
  /\ IF Readable(fs, <<>>)
     THEN /\ pc' = "Running"
          /\ stack' = <<Frame(<<>>, rootDir, "", RootName)>>
          /\ log' = <<ScanMsg>>
          /\ UNCHANGED <<fs, tree, thrown, outs, page, res>>
     ELSE Throw("read", <<ScanMsg>>)

\* entry.isDirectory(): the recursive call and its readdirSync
VisitDir ==
  /\ HasEntry
  /\ EntryClass(fs[CurPath].kind, Cur) = "dir"
  /\ visited' = Append(visited, CurPath)
  /\ IF Readable(fs, CurPath)
     THEN /\ stack' = Append(stack,
                 Frame(CurPath, PathJoin(Top.currentPath, NameStr(Cur)),
                       PathJoin(Top.rel, Top.name), NameStr(Cur)))
          /\ UNCHANGED <<fs, pc, tree, log, thrown, outs, page, res>>
     ELSE Throw("read", log)

\* entry.isFile() && entry.name.endsWith('.html')
VisitPage ==
  /\ HasEntry
  /\ EntryClass(fs[CurPath].kind, Cur) = "page"
  /\ visited' = Append(visited, CurPath)
  /\ IF Readable(fs, CurPath)
     THEN LET html == fs[CurPath].content
              title == extractTitle(html)
              d == Decision(checkSitemapMeta(html))
              entryPath == PathJoin(Top.currentPath, NameStr(Cur))
              entryRelPath == EntryRelPath(Top.rel, Top.name, Cur)
          IN  /\ stack' = [stack EXCEPT ![Len(stack)] =
                    [@ EXCEPT !.i = @ + 1,
                              !.children = @ \o PageChildren(d, Cur, entryRelPath, title)]]
              /\ log' = log \o PageMessages(d, title, entryPath)
              /\ UNCHANGED <<fs, pc, tree, thrown, outs, page, res>>
     ELSE Throw("read", log)

\* any other entry: neither branch of the loop body is taken
SkipEntry ==
  /\ HasEntry
  /\ EntryClass(fs[CurPath].kind, Cur) = "ignored"
  /\ stack' = [stack EXCEPT ![Len(stack)] = [@ EXCEPT !.i = @ + 1]]
  /\ UNCHANGED <<fs, pc, tree, log, visited, thrown, outs, page, res>>

\* the end of the entry loop: the node or null goes back to the caller
Return ==
  /\ pc = "Running"
  /\ stack # <<>>
  /\ Top.i > Len(Top.entries)
  /\ LET r == DirResult(Top.name, Top.children)
         n == Len(stack)
     IN  IF n > 1
         THEN /\ stack' = [SubSeq(stack, 1, n - 1) EXCEPT ![n - 1] =
                     [@ EXCEPT !.i = @ + 1, !.children = @ \o r]]
              /\ UNCHANGED <<pc, tree>>
         ELSE /\ stack' = <<>>
              /\ tree' = r
              /\ pc' = "Walked"
  /\ UNCHANGED <<fs, log, visited, thrown, outs, page, res>>

\* fs.writeFileSync(outputFile, JSON.stringify(tree, null, 2), 'utf8')
Write ==
  /\ pc = "Walked"
  /\ UNCHANGED visited
  /\ IF CanWrite(fs, outputFile)
     THEN /\ fs' = WriteFile(fs, outputFile, Stringify(tree))
          /\ pc' = "Succeeded"
          /\ log' = Append(log, DoneMsg)
          /\ outs' = Append(outs, Output(fs'))
          /\ UNCHANGED <<stack, tree, thrown, page, res>>
     ELSE Throw("write", log)

\* the exporter is invoked again on the tree the last run left
Rerun ==
  /\ pc \in {"Succeeded", "Failed"}
  /\ Len(outs) <= MaxRuns
  /\ pc' = "Ready"
  /\ log' = <<>>
  /\ visited' = <<>>
  /\ tree' = <<>>
  /\ thrown' = "none"
  /\ UNCHANGED <<fs, stack, outs, page, res>>

Next ==
  \/ Start
  \/ VisitDir
  \/ VisitPage
  \/ SkipEntry
  \/ Return
  \/ Write
  \/ Rerun

Spec == Init /\ [][Next]_vars

\* ---------------------------------------------------------------- the two
\* pure functions on drawn pages
MetaCloses == {<<">">>, <<"/", ">">>, <<" ", "/", ">">>}
Gaps == {<<" ">>, <<"\n", " ">>}

Declaration(open, gap, first, second, close) ==
  <<open>> \o gap \o <<first>> \o <<" ">> \o <<second>> \o close

\* meta declarations naming sitemap, in both attribute orders
ForwardDecls ==
  {Declaration(o, g, n, c, e) :
     o \in {"<meta"}, g \in Gaps, n \in {"name=\"sitemap\"", "name='sitemap'"},
     c \in {"content=\"include\"", "content=\"exclude\"", "content=\"INCLUDE\"",
            "content=\"maybe\""},
     e \in MetaCloses}
ReversedDecls ==
  {Declaration(o, g, c, n, e) :
     o \in {"<meta", "<META"}, g \in {<<" ">>}, n \in {"name=\"sitemap\""},
     c \in {"content=\"include\"", "content=\"exclude\""},
     e \in MetaCloses}
TitleBlocks ==
  {TitleHome, <<"<TITLE>", "A", "</title>">>, <<"<title>", " ", "</title>">>,
   <<"<title>", "A", "\n", "</title>">>, <<"Home">>}

Blocks == ForwardDecls \cup ReversedDecls \cup TitleBlocks

RECURSIVE BlockSeqs(_)
BlockSeqs(n) ==
  IF n = 0 THEN {<<>>}
  ELSE BlockSeqs(n - 1) \cup {b \o s : b \in Blocks, s \in BlockSeqs(n - 1)}

DrawnPages == BlockSeqs(MaxBlocks)

InitPure ==
  /\ page \in DrawnPages
  /\ pc = "Pure"
  /\ res = <<>>
  /\ fs = NoFs
  /\ stack = <<>>
  /\ tree = <<>>
  /\ log = <<>>
  /\ visited = <<>>
  /\ thrown = "none"
  /\ outs = <<>>

\* the two helpers applied to the text of one page, as buildTree applies them
Classify ==
  /\ pc = "Pure"
  /\ res = <<>>
  /\ res' = <<[meta |-> checkSitemapMeta(page),
               decision |-> Decision(checkSitemapMeta(page)),
               title |-> extractTitle(page)]>>
  /\ UNCHANGED <<fs, pc, stack, tree, log, visited, thrown, outs, page>>

NextPure == Classify

SpecPure == InitPure /\ [][NextPure]_vars

\* ---------------------------------------------------------------- notions
\* the properties are stated with
NamePath(p) == [k \in 1..Len(p) |-> NameStr(p[k])]

RECURSIVE JoinSlash(_)
JoinSlash(names) ==
  IF names = <<>> THEN ""
  ELSE IF Len(names) = 1 THEN names[1]
  ELSE names[1] \o "/" \o JoinSlash(Tail(names))

\* the absolute path of the entry at p
AbsPath(p) == rootDir \o "/" \o JoinSlash(NamePath(p))

IsPrefix(d, p) == Len(d) < Len(p) /\ SubSeq(p, 1, Len(d)) = d

\* the walk of the current run has returned to the top level
WalkDone == pc \in {"Walked", "Succeeded"} \/ (pc = "Failed" /\ thrown = "write")
Finished == pc \in {"Succeeded", "Failed"}

\* the nodes of a tree with the place of each, as the names from the root down
RECURSIVE Leaves(_, _)
Leaves(node, at) ==
  IF IsLeaf(node) THEN {[at |-> at, node |-> node]}
  ELSE IF "children" \notin DOMAIN node THEN {}
  ELSE UNION {Leaves(node.children[k], Append(at, node.children[k].name)) :
                 k \in 1..Len(node.children)}

RECURSIVE DirNodes(_, _)
DirNodes(node, at) ==
  IF IsLeaf(node) THEN {}
  ELSE {[at |-> at, node |-> node]}
       \cup (IF "children" \notin DOMAIN node THEN {}
             ELSE UNION {DirNodes(node.children[k], Append(at, node.children[k].name)) :
                            k \in 1..Len(node.children)})

TreeLeaves == IF tree = <<>> THEN {} ELSE Leaves(tree[1], <<>>)
TreeDirs == IF tree = <<>> THEN {} ELSE DirNodes(tree[1], <<>>)

\* regular files of the tree whose name ends in .html
HtmlFiles == {p \in DOMAIN fs : fs[p].kind = "file" /\ p[Len(p)].ext = ".html"}
Directories == {p \in DOMAIN fs : fs[p].kind = "dir"}

HasInclude(p) == MetaTest(fs[p].content, "include")
HasExclude(p) == MetaTest(fs[p].content, "exclude")
IncludedFiles == {p \in HtmlFiles : HasInclude(p)}

Visited(p) == \E k \in 1..Len(visited) : visited[k] = p
Count(kind, p) ==
  Cardinality({k \in 1..Len(log) : log[k].kind = kind /\ log[k].path = AbsPath(p)})

\* C1: after a complete walk the leaves of the tree are exactly the .html
\* files whose content passes the include test, each with sitemap true; no
\* other entry (excluded, unmarked, not .html, not a regular file) has a node
C1_FileNodeIffInclude ==
  WalkDone =>
    /\ {l.at : l \in TreeLeaves} = {NamePath(p) : p \in IncludedFiles}
    /\ \A l \in TreeLeaves : l.node.sitemap = TRUE

C1_Witness ==
  /\ WalkDone
  /\ TreeLeaves # {}
  /\ \E p \in HtmlFiles : ~HasInclude(p) /\ HasExclude(p)
  /\ \E p \in HtmlFiles : ~HasInclude(p) /\ ~HasExclude(p)
  /\ \E p \in DOMAIN fs : fs[p].kind = "file" /\ p[Len(p)].ext = ".HTML"

\* C2: after a complete walk a directory (the scan root included) has a node
\* iff an included .html file lies below it at any depth, and every directory
\* node has a non-empty children list
C2_DirNodeIffIncludedBelow ==
  WalkDone =>
    /\ {n.at : n \in TreeDirs} =
         {NamePath(d) : d \in {e \in Directories : \E p \in IncludedFiles : IsPrefix(e, p)}}
    /\ \A n \in TreeDirs : "children" \in DOMAIN n.node /\ Len(n.node.children) > 0

C2_Witness ==
  /\ WalkDone
  /\ tree # <<>>
  /\ <<XName, YName, ZName>> \in HtmlFiles
  /\ <<XName>> \in Directories
  /\ \A n \in TreeDirs : n.at = <<>>

\* C3: an entry whose read fails is the last one visited, the run is Failed
\* and the output file is as it was before the run; the output file changes
\* only after the walk, so it is as before the run while the walk is going on
C3_ReadFailureWritesNothing ==
  /\ \A k \in 1..Len(visited) :
        ~fs[visited[k]].ok =>
           /\ k = Len(visited)
           /\ pc = "Failed"
           /\ Output(fs) = outs[Len(outs) - 1]
  /\ pc \in {"Running", "Walked"} => Output(fs) = outs[Len(outs)]
  /\ pc = "Failed" => Output(fs) = outs[Len(outs) - 1]

C3_Witness ==
  /\ pc = "Failed"
  /\ thrown = "read"
  /\ Len(visited) >= 3
  /\ Output(fs) = <<<<"old">>>>
  /\ \E p \in IncludedFiles : Visited(p)
  /\ \E p \in HtmlFiles : ~Visited(p)

\* C4: a run in which no read fails ends in Succeeded with tree.json holding
\* the tree, whether or not assets/ and assets/data existed before
C4_DestinationEnsured ==
  (Finished /\ \A k \in 1..Len(visited) : fs[visited[k]].ok) =>
    /\ pc = "Succeeded"
    /\ Output(fs) = <<<<Stringify(tree)>>>>

\* C5: the path of a leaf is the names from the scan root down to the file,
\* the root's own name left out, joined with '/'
C5_PathIsProjectRelative ==
  WalkDone => \A l \in TreeLeaves : l.node.path = JoinSlash(l.at)

\* the file below the scan root that a place in the tree stands for
FileAt(at) == CHOOSE p \in DOMAIN fs : NamePath(p) = at

\* C6: the title of a leaf is never empty: it is the extracted text, free of
\* surrounding whitespace, when that text is not empty (and then no
\* title-missing warning is printed), and otherwise the file name, with one
\* title-missing warning
C6_TitleNeverEmpty ==
  WalkDone =>
    \A l \in TreeLeaves :
      LET p == FileAt(l.at)
          t == extractTitle(fs[p].content)
          title == l.node.title
      IN  /\ title # <<>>
          /\ \A k \in 1..Len(title) : title[k] # ""
          /\ Head(title) \notin WsTokens
          /\ title[Len(title)] \notin WsTokens
          /\ IF t # <<>> /\ t[1] # <<>>
             THEN title = t[1] /\ Count("TITLE MISSING", p) = 0
             ELSE title = <<l.node.name>> /\ Count("TITLE MISSING", p) = 1

C6_Witness ==
  /\ pc = "Succeeded"
  /\ \E l \in TreeLeaves : l.node.title = <<"Home">>
  /\ \E l \in TreeLeaves :
        /\ extractTitle(fs[FileAt(l.at)].content) = << <<>> >>
        /\ l.node.title = <<l.node.name>>
  /\ \E l \in TreeLeaves :
        /\ extractTitle(fs[FileAt(l.at)].content) = <<>>
        /\ l.node.title = <<l.node.name>>

\* C7: a readable page with both directives causes neither the excluded note
\* nor the missing-tag warning, and has a leaf with sitemap true once the
\* walk is complete
C7_IncludeWinsTie ==
  \A p \in HtmlFiles :
    (Visited(p) /\ fs[p].ok /\ HasInclude(p) /\ HasExclude(p)) =>
      /\ Count("EXCLUDED", p) = 0
      /\ Count("SITEMAP TAG MISSING", p) = 0
      /\ WalkDone =>
           \E l \in TreeLeaves :
              l.at = NamePath(p) /\ l.node.sitemap = TRUE /\ l.node.name = NameStr(p[Len(p)])

C7_Witness ==
  /\ pc = "Succeeded"
  /\ \E p \in HtmlFiles :
        /\ HasInclude(p) /\ HasExclude(p)
        /\ \E l \in TreeLeaves : l.at = NamePath(p)
  /\ \E p \in HtmlFiles : ~HasInclude(p) /\ HasExclude(p) /\ Count("EXCLUDED", p) = 1

\* C8: each run after the first leaves the output file exactly as the run
\* before it left it
C8_SecondRunSameOutput ==
  \A k \in 2..(Len(outs) - 1) : outs[k + 1] = outs[k]

C8_Witness ==
  /\ pc = "Succeeded"
  /\ Len(outs) = 3
  /\ outs[1] = <<>>
  /\ outs[2] # <<<<"null">>>>
  /\ Visited(outputDir)
  /\ fs[outputDir].entries = <<TreeJsonName>>
  /\ Cardinality(TreeLeaves) >= 2

\* a sitemap declaration for v in either attribute order, with or without
\* the self-closing slash
IsDeclaration(b, v) ==
  /\ Len(b) >= 6
  /\ b[1] \in MetaOpen
  /\ b[2] \in WsTokens
  /\ b[4] \in WsTokens
  /\ \/ b[3] \in NameAttr /\ b[5] \in ContentAttr(v)
     \/ b[3] \in ContentAttr(v) /\ b[5] \in NameAttr
  /\ SubSeq(b, 6, Len(b)) \in {<<">">>, <<"/", ">">>}

\* C9: a page that is one sitemap declaration for v, in either attribute
\* order and with or without the slash, is decided as v
C9_AttributeOrderTolerated ==
  \A v \in {"include", "exclude"} :
    (res # <<>> /\ IsDeclaration(page, v)) => res[1].decision = v

\* the part of C9 the code keeps: name before content, with or without slash
C9_ForwardForms ==
  \A v \in {"include", "exclude"} :
    (res # <<>> /\ IsDeclaration(page, v) /\ page[3] \in NameAttr) => res[1].decision = v

\* C10: each readable page visited has caused one missing-tag warning if it
\* is unmarked and none otherwise, one excluded note if it is excluded and
\* none otherwise, whatever happens later in the run; unmarked and excluded
\* pages have no node; and a run on a tree with nothing unreadable and with
\* the destination directory in place visits every page and ends Succeeded
C10_SkipsAreRecoverable ==
  /\ \A p \in HtmlFiles :
        (Visited(p) /\ fs[p].ok) =>
           /\ Count("SITEMAP TAG MISSING", p) =
                 (IF ~HasInclude(p) /\ ~HasExclude(p) THEN 1 ELSE 0)
           /\ Count("EXCLUDED", p) = (IF ~HasInclude(p) /\ HasExclude(p) THEN 1 ELSE 0)
           /\ (WalkDone /\ ~HasInclude(p)) => \A l \in TreeLeaves : l.at # NamePath(p)
  /\ (Finished /\ (\A p \in DOMAIN fs : fs[p].kind = "other" \/ fs[p].ok)
               /\ IsDir(fs, outputDir)) =>
        /\ pc = "Succeeded"
        /\ \A p \in HtmlFiles \cup Directories : Visited(p)

C10_Witness ==
  /\ pc = "Failed"
  /\ thrown = "read"
  /\ \E p \in HtmlFiles : Count("SITEMAP TAG MISSING", p) = 1
  /\ \E p \in HtmlFiles : Count("EXCLUDED", p) = 1
  /\ Len(visited) >= 4
====
